---- MODULE Spec2Model ----
(***************************************************************************)
(* VSCodeMCPServer (src/vscode_mcp_integration.py): a request router that  *)
(* renders an instruction from a request mapping, hands it to an external  *)
(* agent and wraps the agent's reply in a mapping keyed by the action.     *)
(*                                                                         *)
(* Python strings are TLA+ strings, concatenated with \o.  A request is a  *)
(* function from the field names it carries to their string values; a      *)
(* field that is absent is outside its DOMAIN.  A response mapping is a    *)
(* function with a one-element domain.                                     *)
(***************************************************************************)
EXTENDS Integers, Sequences, FiniteSets, TLC

VARIABLES
    agent,      \* self.agent: NoAgent (None) or the handle built by Agent(...)
    model,      \* self.model: the model identifier given to __init__
    built,      \* number of times the Agent constructor has been entered
    invoked,    \* number of handle_request invocations made so far
    wanted,     \* number of those invocations whose action is one of the five kinds
                \* and that found the router Ready
    runCount,   \* number of calls made into agent.run
    tasks,      \* handle_request coroutines suspended at `await self.agent.run(...)`
    runs,       \* the agent's side of each suspended call: the instruction it was
                \* given and the Agent object running it
    last        \* outcome of the operation that completed most recently

vars == <<agent, model, built, invoked, wanted, runCount, tasks, runs, last>>

----------------------------------------------------------------------------
(* Bounds *)

MaxCalls == 3          \* handle_request invocations in one behaviour
MaxFieldCalls == 1     \* the same, when every field combination is enumerated
MaxInit == 2           \* initialize() invocations in one behaviour
MaxInFlight == 2       \* handle_request coroutines suspended at once

----------------------------------------------------------------------------
(* Text *)

\* The backquote character, which a TLA+ string literal cannot hold by itself.
Backquote == SubSeq("`'", 1, 1)

\* The Markdown fence written in four of the five templates.
Fence == Backquote \o Backquote \o Backquote

DefaultModel == "meta-llama/Meta-Llama-3.1-70B-Instruct"

ExampleModel == "Qwen/Qwen2.5-Coder-32B-Instruct"

----------------------------------------------------------------------------
(* Requests *)

\* The five action values compared against in handle_request.
ActionKinds == {"complete_code", "explain_code", "fix_error", "refactor", "generate_tests"}

\* Action values sent by callers: the five kinds and one that matches none of them.
ActionValues == ActionKinds \cup {"bogus_action"}

OptionalFields == {"context", "cursor", "code", "error", "goal", "framework"}

\* The value a caller's request carries under each optional field it sets.
SampleValue ==
    [context   |-> "def f(x):",
     cursor    |-> "line 1, col 10",
     code      |-> "x = y + 1",
     error     |-> "NameError: name 'y' is not defined",
     goal      |-> "use less memory",
     framework |-> "unittest"]

\* The request that carries exactly the fields D, with action value a.
RequestWith(D, a) ==
    [f \in D |-> IF f = "action" THEN a ELSE SampleValue[f]]

\* The request built in main().
ExampleRequest ==
    [action |-> "fix_error",
     error  |-> "TypeError: unsupported operand type(s) for +: 'int' and 'str'",
     code   |-> "def calculate_total(items):\n    total = 0\n    for item in items:\n        total = total + item['price']\n    return total"]

\* The optional fields sent along with an action no branch reads fields for.
FewFieldSets == {{}, {"code"}, {"code", "goal", "framework"}, OptionalFields}

\* The requests sent one at a time: each of the five kinds with every
\* combination of present and absent optional fields, a value that is none of
\* the five and no action field at all with a few such combinations, and the
\* request of main().
AllRequests ==
    {RequestWith(D \cup {"action"}, a) : D \in SUBSET OptionalFields, a \in ActionKinds}
        \cup {RequestWith(D \cup {"action"}, a) :
                D \in FewFieldSets, a \in ActionValues \ ActionKinds}
        \cup {RequestWith(D, "") : D \in FewFieldSets}
        \cup {ExampleRequest}

\* A smaller set of requests, used where several calls are in flight at once.
CoreRequests ==
    {ExampleRequest,
     RequestWith({"action", "context", "cursor"}, "complete_code"),
     RequestWith({"action", "code"}, "explain_code"),
     RequestWith({"action", "code"}, "refactor"),
     RequestWith({"action", "framework"}, "generate_tests"),
     RequestWith({"action", "code"}, "bogus_action"),
     RequestWith({"code"}, "")}

----------------------------------------------------------------------------
(* handle_request, as far as it is a function of the request *)

\* request.get(key, default)
Get(request, key, default) ==
    IF key \in DOMAIN request THEN request[key] ELSE default

\* The branch of the if/elif chain taken for `action = request.get("action")`:
\* the matching kind, or "else".  A missing action is None, which equals no string.
Dispatch(request) ==
    IF "action" \notin DOMAIN request THEN "else"
    ELSE IF request["action"] = "complete_code" THEN "complete_code"
    ELSE IF request["action"] = "explain_code" THEN "explain_code"
    ELSE IF request["action"] = "fix_error" THEN "fix_error"
    ELSE IF request["action"] = "refactor" THEN "refactor"
    ELSE IF request["action"] = "generate_tests" THEN "generate_tests"
    ELSE "else"

\* Instruction with the refactor branch's default goal cut short.
InstructionShortGoal(branch, request) ==
    IF branch = "refactor" THEN
        "Refactor this code to " \o Get(request, "goal", "improve readability")
            \o ":\n" \o Fence \o "\n" \o Get(request, "code", "") \o "\n" \o Fence
    ELSE IF branch = "complete_code" THEN
        "Complete this code at cursor position:\n" \o Get(request, "context", "")
            \o "\nCursor: " \o Get(request, "cursor", "")
    ELSE IF branch = "explain_code" THEN
        "Explain this code:\n" \o Fence \o "\n" \o Get(request, "code", "")
            \o "\n" \o Fence
    ELSE IF branch = "fix_error" THEN
        "Fix this error:\nError: " \o Get(request, "error", "") \o "\nCode:\n"
            \o Fence \o "\n" \o Get(request, "code", "") \o "\n" \o Fence
    ELSE
        "Generate " \o Get(request, "framework", "pytest") \o " tests for:\n"
            \o Fence \o "\n" \o Get(request, "code", "") \o "\n" \o Fence

\* The f-string passed to self.agent.run in the given branch.
Instruction(branch, request) ==
    IF branch = "complete_code" THEN
        "Complete this code at cursor position:\n" \o Get(request, "context", "")
            \o "\nCursor: " \o Get(request, "cursor", "")
    ELSE IF branch = "explain_code" THEN
        "Explain this code:\n" \o Fence \o "\n" \o Get(request, "code", "")
            \o "\n" \o Fence
    ELSE IF branch = "fix_error" THEN
        "Fix this error:\nError: " \o Get(request, "error", "") \o "\nCode:\n"
            \o Fence \o "\n" \o Get(request, "code", "") \o "\n" \o Fence
    ELSE IF branch = "refactor" THEN
        "Refactor this code to "
            \o Get(request, "goal", "improve readability and performance")
            \o ":\n" \o Fence \o "\n" \o Get(request, "code", "") \o "\n" \o Fence
    ELSE
        "Generate " \o Get(request, "framework", "pytest") \o " tests for:\n"
            \o Fence \o "\n" \o Get(request, "code", "") \o "\n" \o Fence

\* ResponseKey with the explain_code branch returning the complete_code key.
ResponseKeyCopied(branch) ==
    IF branch \in {"complete_code", "explain_code"} THEN "completion"
    ELSE IF branch = "fix_error" THEN "fix"
    ELSE IF branch = "refactor" THEN "refactored"
    ELSE "tests"

\* The key of the mapping returned by the given branch.
ResponseKey(branch) ==
    IF branch = "complete_code" THEN "completion"
    ELSE IF branch = "explain_code" THEN "explanation"
    ELSE IF branch = "fix_error" THEN "fix"
    ELSE IF branch = "refactor" THEN "refactored"
    ELSE "tests"

\* {key: response}
Reply(key, response) == key :> response

\* ActionText with a missing action rendered as the empty text.
ActionTextBlank(request) ==
    IF "action" \in DOMAIN request THEN request["action"] ELSE ""

\* f"{action}": the action value, or the text None when the field is absent.
ActionText(request) ==
    IF "action" \in DOMAIN request THEN request["action"] ELSE "None"

\* UnknownAction with the action value left out of the message.
UnknownActionBare(request) == "error" :> "Unknown action"

\* The mapping returned by the else branch.
UnknownAction(request) == "error" :> ("Unknown action: " \o ActionText(request))

\* RunsMade with the fix_error branch running the agent a second time.
RunsMadeTwice(branch) ==
    IF branch = "else" THEN 0 ELSE IF branch = "fix_error" THEN 2 ELSE 1

\* The number of self.agent.run calls written in the given branch.
RunsMade(branch) == IF branch = "else" THEN 0 ELSE 1

----------------------------------------------------------------------------
(* The router and the agent *)

\* self.agent = None
NoAgent == [kind |-> "None"]

\* NewAgent built with the default model instead of self.model.
NewAgentDefaultModel(m, n) == [kind |-> "Agent", id |-> n, model |-> DefaultModel]

\* Agent(model=self.model, servers=[...], prompt=...): the n-th object built.
NewAgent(m, n) == [kind |-> "Agent", id |-> n, model |-> m]

\* HasRun that finds a run attribute on None as well.
HasRunAlways(a) == TRUE

\* Whether the attribute lookup `self.agent.run` succeeds: None has no run.
HasRun(a) == a.kind = "Agent"

\* AgentAfterFailedInit that leaves a half-built handle behind.
AgentAfterFailedInitHalfBuilt(a) == [kind |-> "Agent", id |-> 0, model |-> ""]

\* self.agent after the Agent constructor raised: the assignment never ran.
AgentAfterFailedInit(a) == a

\* Exceptions the Agent constructor may raise (the external library's choice).
ConstructionFailures == {"ValueError: unknown model", "OSError: npx not found"}

\* Exceptions agent.run may raise (the external library's choice).
AgentFailures == {"RuntimeError: inference failed", "TimeoutError: tool call"}

\* Texts the agent may answer an instruction with.
AgentReplies(instruction) == {"1> " \o instruction, "2> " \o instruction}

\* How a call or an initialization ended, as its caller sees it.
Returned(value) == [outcome |-> "return", value |-> value, exc |-> ""]

Raised(exc) == [outcome |-> "raise", value |-> << >>, exc |-> exc]

\* Propagate that catches the exception and returns it under the error key.
PropagateAsError(exc) == Returned("error" :> exc)

\* An exception raised by the awaited agent.run: handle_request has no try/except.
Propagate(exc) == Raised(exc)

\* The record kept of a finished handle_request call.
Finished(n, request, ready, result, calls, instruction, reply) ==
    [op |-> "handle_request", n |-> n, request |-> request, ready |-> ready,
     outcome |-> result.outcome, value |-> result.value, exc |-> result.exc,
     calls |-> calls, instruction |-> instruction, reply |-> reply]

\* The record kept of a finished initialize call.
Initialized(result) ==
    [op |-> "initialize", n |-> 0, request |-> << >>, ready |-> FALSE,
     outcome |-> result.outcome, value |-> result.value, exc |-> result.exc,
     calls |-> 0, instruction |-> "", reply |-> ""]

NothingYet ==
    [op |-> "none", n |-> 0, request |-> << >>, ready |-> FALSE,
     outcome |-> "none", value |-> << >>, exc |-> "",
     calls |-> 0, instruction |-> "", reply |-> ""]

\* Resumed that reads the frame of the call started last, as if the locals of
\* handle_request were kept on the router.
ResumedShared(t) ==
    tasks[CHOOSE u \in DOMAIN tasks : \A v \in DOMAIN tasks : tasks[u].n >= tasks[v].n]

\* The coroutine frame resumed when the run awaited by task t completes.
Resumed(t) == tasks[t]

\* A mapping without the entry for t.
Without(f, t) == [x \in DOMAIN f \ {t} |-> f[x]]

\* The lowest free task slot.
FreeSlot == CHOOSE t \in 1..(Cardinality(DOMAIN tasks) + 1) : t \notin DOMAIN tasks

\* VSCodeMCPServer(model=...)
Init ==
    /\ model \in {DefaultModel, ExampleModel}
    /\ agent = NoAgent
    /\ built = 0
    /\ invoked = 0
    /\ wanted = 0
    /\ runCount = 0
    /\ tasks = << >>
    /\ runs = << >>
    /\ last = NothingYet

\* initialize(), the Agent constructor returning the new object.
Initialize ==
    /\ built < MaxInit
    /\ built' = built + 1
    /\ agent' = NewAgent(model, built + 1)
    /\ last' = Initialized(Returned(<< >>))
    /\ UNCHANGED <<model, invoked, wanted, runCount, tasks, runs>>

\* initialize(), the Agent constructor raising e.
InitializeFails(e) ==
    /\ built < MaxInit
    /\ built' = built + 1
    /\ agent' = AgentAfterFailedInit(agent)
    /\ last' = Initialized(Raised(e))
    /\ UNCHANGED <<model, invoked, wanted, runCount, tasks, runs>>

\* handle_request(request), from its entry to its return, its raise or its
\* suspension at `await self.agent.run(...)`.
HandleRequest(request, maxCalls, maxInFlight) ==
    /\ invoked < maxCalls
    /\ Cardinality(DOMAIN tasks) < maxInFlight
    /\ invoked' = invoked + 1
    /\ wanted' = IF Get(request, "action", "") \in ActionKinds /\ agent # NoAgent
                  THEN wanted + 1 ELSE wanted
    /\ LET branch == Dispatch(request) IN
       IF branch = "else" THEN
           /\ last' = Finished(invoked + 1, request, agent # NoAgent,
                               Returned(UnknownAction(request)), RunsMade(branch), "", "")
           /\ UNCHANGED <<runCount, tasks, runs>>
       ELSE IF ~HasRun(agent) THEN
           /\ last' = Finished(invoked + 1, request, agent # NoAgent,
                   Raised("AttributeError: 'NoneType' object has no attribute 'run'"),
                   0, "", "")
           /\ UNCHANGED <<runCount, tasks, runs>>
       ELSE
           /\ runCount' = runCount + RunsMade(branch)
           /\ tasks' = (FreeSlot :> [n |-> invoked + 1, request |-> request,
                                      branch |-> branch,
                                      ready |-> agent # NoAgent,
                                      calls |-> RunsMade(branch)]) @@ tasks
           /\ runs' = (FreeSlot :> [instruction |-> Instruction(branch, request),
                                     agent |-> agent]) @@ runs
           /\ UNCHANGED last
    /\ UNCHANGED <<agent, model, built>>

\* The run awaited by task t completes with a reply: the coroutine resumes
\* and returns {key: response}.
AgentReturns(t, reply) ==
    /\ t \in DOMAIN tasks
    /\ reply \in AgentReplies(runs[t].instruction)
    /\ last' = Finished(tasks[t].n, tasks[t].request, tasks[t].ready,
                        Returned(Reply(ResponseKey(Resumed(t).branch), reply)),
                        tasks[t].calls, runs[t].instruction, reply)
    /\ tasks' = Without(tasks, t)
    /\ runs' = Without(runs, t)
    /\ UNCHANGED <<agent, model, built, invoked, wanted, runCount>>

\* The run awaited by task t raises e: the exception leaves handle_request.
AgentRaises(t, e) ==
    /\ t \in DOMAIN tasks
    /\ last' = Finished(tasks[t].n, tasks[t].request, tasks[t].ready, Propagate(e),
                        tasks[t].calls, runs[t].instruction, "")
    /\ tasks' = Without(tasks, t)
    /\ runs' = Without(runs, t)
    /\ UNCHANGED <<agent, model, built, invoked, wanted, runCount>>

\* Callers that may have several calls in flight, sending the core requests.
Next ==
    \/ Initialize
    \/ \E e \in ConstructionFailures : InitializeFails(e)
    \/ \E request \in CoreRequests : HandleRequest(request, MaxCalls, MaxInFlight)
    \/ \E t \in DOMAIN tasks : \E reply \in AgentReplies(runs[t].instruction) : AgentReturns(t, reply)
    \/ \E t \in DOMAIN tasks : \E e \in AgentFailures : AgentRaises(t, e)

Spec == Init /\ [][Next]_vars

\* A caller that awaits each call before the next, sending every request.
NextFields ==
    \/ Initialize
    \/ \E e \in ConstructionFailures : InitializeFails(e)
    \/ \E request \in AllRequests : HandleRequest(request, MaxFieldCalls, 1)
    \/ \E t \in DOMAIN tasks : \E reply \in AgentReplies(runs[t].instruction) : AgentReturns(t, reply)
    \/ \E t \in DOMAIN tasks : \E e \in AgentFailures : AgentRaises(t, e)

\* server = VSCodeMCPServer(model="Qwen/Qwen2.5-Coder-32B-Instruct"), as in main().
InitFields == Init /\ model = ExampleModel

SpecFields == InitFields /\ [][NextFields]_vars

----------------------------------------------------------------------------
(* What the claims expect, stated apart from the model of the code *)

\* The response key of each action kind.
KeyTable ==
    [complete_code  |-> "completion",
     explain_code   |-> "explanation",
     fix_error      |-> "fix",
     refactor       |-> "refactored",
     generate_tests |-> "tests"]

\* The instruction template of each action kind: literal text and, for each
\* optional field, its name and default.
Template ==
    [complete_code |->
        <<[text |-> "Complete this code at cursor position:\n"],
          [field |-> "context", default |-> ""],
          [text |-> "\nCursor: "],
          [field |-> "cursor", default |-> ""]>>,
     explain_code |->
        <<[text |-> "Explain this code:\n" \o Fence \o "\n"],
          [field |-> "code", default |-> ""],
          [text |-> "\n" \o Fence]>>,
     fix_error |->
        <<[text |-> "Fix this error:\nError: "],
          [field |-> "error", default |-> ""],
          [text |-> "\nCode:\n" \o Fence \o "\n"],
          [field |-> "code", default |-> ""],
          [text |-> "\n" \o Fence]>>,
     refactor |->
        <<[text |-> "Refactor this code to "],
          [field |-> "goal", default |-> "improve readability and performance"],
          [text |-> ":\n" \o Fence \o "\n"],
          [field |-> "code", default |-> ""],
          [text |-> "\n" \o Fence]>>,
     generate_tests |->
        <<[text |-> "Generate "],
          [field |-> "framework", default |-> "pytest"],
          [text |-> " tests for:\n" \o Fence \o "\n"],
          [field |-> "code", default |-> ""],
          [text |-> "\n" \o Fence]>>]

\* The template parts from the i-th on, each field replaced by the request's
\* value when present and by its default when absent.
RECURSIVE Fill(_, _, _)
Fill(parts, i, request) ==
    IF i > Len(parts) THEN ""
    ELSE (IF "text" \in DOMAIN parts[i] THEN parts[i].text
          ELSE IF parts[i].field \in DOMAIN request THEN request[parts[i].field]
          ELSE parts[i].default)
         \o Fill(parts, i + 1, request)

ExpectedInstruction(request) == Fill(Template[request["action"]], 1, request)

\* The fields named in an action kind's template.
NamedFields(kind) ==
    {Template[kind][i].field :
        i \in {j \in 1..Len(Template[kind]) : "field" \in DOMAIN Template[kind][j]}}

\* The request cut down to its action and the fields its template names.
Relevant(request) ==
    [f \in DOMAIN request \cap ({"action"} \cup NamedFields(request["action"]))
        |-> request[f]]

\* Whether text holds part as a substring.
Contains(text, part) ==
    \E i \in 1..(Len(text) - Len(part) + 1) : SubSeq(text, i, i + Len(part) - 1) = part

\* Whether the request names one of the five action kinds.
Recognized(request) ==
    "action" \in DOMAIN request /\ request["action"] \in DOMAIN KeyTable

\* The instruction the spec gives for the request of main().
ExampleInstruction ==
    "Fix this error:\nError: TypeError: unsupported operand type(s) for +: 'int' and 'str'\nCode:\n"
        \o Fence
        \o "\ndef calculate_total(items):\n    total = 0\n    for item in items:\n        total = total + item['price']\n    return total\n"
        \o Fence

----------------------------------------------------------------------------
(* Claims *)

\* C1: a call with one of the five action kinds that returns on a Ready router
\* returns a mapping whose only key is the kind's key from the table, whatever
\* optional fields the request carries, and whose value is the agent's reply
\* to this call, unchanged.
C1_ResponseShape ==
    (last.op = "handle_request" /\ last.ready /\ last.outcome = "return"
        /\ Recognized(last.request))
    => /\ DOMAIN last.value = {KeyTable[last.request["action"]]}
       /\ last.value[KeyTable[last.request["action"]]] = last.reply
       /\ last.reply \in AgentReplies(last.instruction)

\* An explain_code request carrying every optional field has returned.
C1_Witness ==
    /\ last.request = RequestWith(OptionalFields \cup {"action"}, "explain_code")
    /\ last.outcome = "return"
    /\ last.value = [explanation |-> last.reply]
    /\ last.reply # ""

\* C2: a call whose action value is none of the five kinds returns the mapping
\* {error: "Unknown action: " + value} and makes no call into the agent.
C2_UnknownAction ==
    (last.op = "handle_request" /\ "action" \in DOMAIN last.request
        /\ last.request["action"] \notin DOMAIN KeyTable)
    => /\ last.outcome = "return"
       /\ last.value = [error |-> "Unknown action: " \o last.request["action"]]
       /\ last.calls = 0
       /\ last.instruction = ""
       /\ runCount = wanted

\* bogus_action has been answered with the error mapping of the spec's example.
C2_Witness ==
    /\ last.op = "handle_request"
    /\ Get(last.request, "action", "") = "bogus_action"
    /\ last.value = [error |-> "Unknown action: bogus_action"]

\* C3: the instruction handed to the agent is the action kind's template with
\* each optional field replaced by the request's value or, when absent, by its
\* default; a refactor request without goal yields the default goal's text;
\* fields the template does not name do not affect the instruction.
C3_Instruction ==
    \A t \in DOMAIN tasks :
        /\ Recognized(tasks[t].request)
        /\ runs[t].instruction = ExpectedInstruction(tasks[t].request)
        /\ runs[t].instruction = ExpectedInstruction(Relevant(tasks[t].request))
        /\ (tasks[t].request["action"] = "refactor" /\ "goal" \notin DOMAIN tasks[t].request)
            => Contains(runs[t].instruction, "to improve readability and performance:")
        /\ tasks[t].request = ExampleRequest => runs[t].instruction = ExampleInstruction

\* A refactor request without goal, carrying every other optional field, is
\* awaiting the agent.
C3_Witness ==
    \E t \in DOMAIN tasks :
        /\ tasks[t].request = RequestWith((OptionalFields \ {"goal"}) \cup {"action"}, "refactor")
        /\ Contains(runs[t].instruction, "to improve readability and performance:")

\* C4: on a Ready router the number of calls made into the agent equals the
\* number of invocations naming one of the five kinds: each makes exactly one
\* call, none is retried, and an invocation repeating an earlier request makes
\* a call of its own.
C4_OneRunPerCall ==
    /\ runCount = wanted
    /\ \A t \in DOMAIN tasks : tasks[t].calls = 1
    /\ (last.op = "handle_request" /\ last.ready /\ Recognized(last.request))
        => last.calls = 1
    /\ (last.op = "handle_request" /\ last.ready /\ ~Recognized(last.request))
        => last.calls = 0

\* The request of main() was answered, and the same request, sent again, is
\* awaiting a second run of the agent.
C4_Witness ==
    /\ last.request = ExampleRequest
    /\ last.outcome = "return"
    /\ \E t \in DOMAIN tasks : tasks[t].request = ExampleRequest /\ tasks[t].n > last.n
    /\ runCount = 2
    /\ invoked = 2

\* C5 as claimed: no call made while the router is Uninitialized returns a
\* mapping or reaches the agent, whatever its action.
C5_Original ==
    (last.op = "handle_request" /\ ~last.ready)
    => (last.outcome # "return" /\ last.calls = 0)

\* C5 amended: the router is Uninitialized until a successful initialize() and
\* Ready from then on; a call made while Uninitialized never reaches the agent;
\* with one of the five action kinds it raises AttributeError and returns no
\* mapping, with any other or no action it returns the error mapping.
C5_Uninitialized ==
    /\ agent = NoAgent => (tasks = << >> /\ runs = << >> /\ runCount = 0)
    /\ \A t \in DOMAIN tasks : tasks[t].ready
    /\ (last.op = "handle_request" /\ ~last.ready)
        => /\ last.calls = 0
           /\ Recognized(last.request)
               => /\ last.outcome = "raise"
                  /\ last.value = << >>
                  /\ last.exc = "AttributeError: 'NoneType' object has no attribute 'run'"
           /\ ~Recognized(last.request)
               => /\ last.outcome = "return"
                  /\ DOMAIN last.value = {"error"}

\* A call with a recognized action made before initialize() has failed.
C5_Witness ==
    /\ agent = NoAgent
    /\ last.op = "handle_request"
    /\ Recognized(last.request)
    /\ last.outcome = "raise"

\* C6 as claimed: a request without an action field makes the call fail: no
\* mapping is returned and the agent is not called.
C6_Original ==
    (last.op = "handle_request" /\ "action" \notin DOMAIN last.request)
    => (last.outcome = "raise" /\ last.value = << >> /\ last.calls = 0)

\* C6 amended: a request without an action field is answered like an unknown
\* action: the call returns {error: "Unknown action: None"} and makes no call
\* into the agent.
C6_MissingAction ==
    (last.op = "handle_request" /\ "action" \notin DOMAIN last.request)
    => /\ last.outcome = "return"
       /\ last.value = [error |-> "Unknown action: None"]
       /\ last.calls = 0

\* A request without an action field, carrying every optional field, was answered.
C6_Witness ==
    /\ last.op = "handle_request"
    /\ last.request = RequestWith(OptionalFields, "")
    /\ last.outcome = "return"

\* C7: when the awaited agent run raises, the call raises the same exception,
\* returns no mapping, has called the agent once, and leaves the router and
\* the other calls in flight as they were.
C7_AgentFailure ==
    [][\A t \in DOMAIN tasks : \A e \in AgentFailures :
         AgentRaises(t, e)
         => /\ last'.outcome = "raise"
            /\ last'.exc = e
            /\ last'.value = << >>
            /\ last'.calls = 1
            /\ last'.request = tasks[t].request
            /\ runCount' = runCount
            /\ <<agent, model, built>>' = <<agent, model, built>>
            /\ \A u \in DOMAIN tasks \ {t} :
                 u \in DOMAIN tasks' /\ tasks'[u] = tasks[u] /\ runs'[u] = runs[u]]_vars

\* The first call failed in the agent while a later call of the same Ready
\* router is still handled.
C7_Witness ==
    /\ last.op = "handle_request"
    /\ last.outcome = "raise"
    /\ last.exc \in AgentFailures
    /\ agent # NoAgent
    /\ \E t \in DOMAIN tasks : tasks[t].n > last.n

\* C8: when the Agent constructor raises inside initialize(), the caller gets
\* that exception, the constructor has been entered once, and self.agent is
\* what it was before the call: absent if the router was Uninitialized.
C8_FailedInitialize ==
    [][\A e \in ConstructionFailures :
         InitializeFails(e)
         => /\ last'.op = "initialize"
            /\ last'.outcome = "raise"
            /\ last'.exc = e
            /\ built' = built + 1
            /\ agent' = agent
            /\ (agent = NoAgent => agent' = NoAgent)]_vars

\* The first initialize() failed and the router is still Uninitialized.
C8_Witness ==
    /\ last.op = "initialize"
    /\ last.outcome = "raise"
    /\ built = 1
    /\ agent = NoAgent

\* C9 as claimed: once Ready, no later operation changes the agent handle.
C9_Original == [][agent # NoAgent => agent' = agent]_vars

\* C9 amended: once Ready the router stays Ready and its handle holds the
\* router's model identifier; handle_request calls and failed initialize()
\* calls leave the handle as it is; a repeated successful initialize()
\* replaces it by a newly built handle holding the same model identifier.
C9_HandleStable ==
    /\ [](agent # NoAgent => agent.model = model)
    /\ [][/\ model' = model
          /\ agent # NoAgent
              => /\ agent' # NoAgent
                 /\ agent'.model = agent.model
                 /\ agent' # agent
                     => /\ last'.op = "initialize"
                        /\ last'.outcome = "return"
                        /\ built' = built + 1
                        /\ agent'.id = built']_vars

\* The router was initialized a second time while a call handed to the first
\* handle is still in flight.
C9_Witness ==
    /\ agent # NoAgent
    /\ agent.id = 2
    /\ \E t \in DOMAIN runs : runs[t].agent.id = 1

\* C10: with several calls in flight and replies arriving in any order, each
\* call has handed the agent the instruction of its own request and returns
\* the mapping keyed by its own action, holding a reply to that instruction.
C10_NoCrossTalk ==
    /\ \A t \in DOMAIN tasks :
         /\ t \in DOMAIN runs
         /\ runs[t].instruction = ExpectedInstruction(tasks[t].request)
    /\ (last.op = "handle_request" /\ last.outcome = "return" /\ Recognized(last.request))
        => /\ last.instruction = ExpectedInstruction(last.request)
           /\ last.reply \in AgentReplies(ExpectedInstruction(last.request))
           /\ last.value = (KeyTable[last.request["action"]] :> last.reply)

\* The second of two calls with different actions returned while the first is
\* still awaiting the agent.
C10_Witness ==
    /\ last.op = "handle_request"
    /\ last.outcome = "return"
    /\ Recognized(last.request)
    /\ \E t \in DOMAIN tasks :
         /\ tasks[t].n < last.n
         /\ tasks[t].request["action"] # last.request["action"]

====
